---- MODULE Spec2Model ----
(***************************************************************************)
(* Model of the JPYCv2 Hardhat tasks: deploy:jpycv2 (tasks/deploy.js),     *)
(* jpyc:mint / jpyc:transfer / jpyc:burn (tasks/actions.js) and            *)
(* jpyc:configure-minter / jpyc:remove-minter / jpyc:update-roles          *)
(* (tasks/admin.js).  One task invocation runs at a time (each is one CLI  *)
(* process); the deployments directory and the chain persist between       *)
(* invocations.  JavaScript values are records tagged by "kind"; the       *)
(* ethers / upgrades / fs calls are modelled by what the tasks rely on.    *)
(***************************************************************************)
EXTENDS Integers, Sequences, FiniteSets, TLC

\* ------------------------------------------------------------------ bounds
\* deployProxy calls explored over all invocations (the code has no limit).
MaxDeploys == 2

\* ------------------------------------------------------- JavaScript values
Undefined == [kind |-> "undefined"]
Null == [kind |-> "null"]
\* A string that is not a hex address; t = "" is the empty string, pad means
\* surrounding white space.
Text(t, pad) == [kind |-> "text", t |-> t, pad |-> pad]
\* A 0x-prefixed 40-digit hex string with body number h (0 = all zeros) in
\* letter-case form "lower", "upper", "sum" (EIP-55 checksum) or "badsum"
\* (mixed case that is not the checksum).  The all-zero body has no letters,
\* so all its case forms are the same string.
HexStr(h, form, pad) ==
  [kind |-> "hex", h |-> h, form |-> IF h = 0 THEN "nocase" ELSE form, pad |-> pad]
\* A JavaScript number; int is FALSE for NaN and for non-integers.
Num(n) == [kind |-> "number", int |-> TRUE, n |-> n]
NotInt == [kind |-> "number", int |-> FALSE, n |-> 0]
\* A decimal literal such as "-1.50": sign, digits before and after the dot.
Amt(neg, whole, dot, frac) ==
  [kind |-> "amt", neg |-> neg, whole |-> whole, dot |-> dot, frac |-> frac]

Ok(v) == [ok |-> TRUE, val |-> v]
Err(e) == [ok |-> FALSE, err |-> e]

\* JavaScript truthiness of the values above (strings: non-empty).
Truthy(v) ==
  CASE v.kind = "undefined" -> FALSE
    [] v.kind = "null" -> FALSE
    [] v.kind = "text" -> (v.t # "" \/ v.pad)
    [] v.kind = "number" -> (v.int /\ v.n # 0)
    [] OTHER -> TRUE

\* String.prototype.trim
trim(v) == IF v.kind \in {"text", "hex"} THEN [v EXCEPT !.pad = FALSE] ELSE v

\* String.prototype.toLowerCase on an address string
toLowerCase(v) == IF v.kind = "hex" THEN HexStr(v.h, "lower", v.pad) ELSE v

ZERO_ADDRESS == HexStr(0, "lower", FALSE)
DEFAULT_DECIMALS == 18

\* ethers.utils.isAddress: 40 hex digits, all one case or a correct checksum
isAddress(v) ==
  /\ v.kind = "hex"
  /\ ~v.pad
  /\ v.form \in {"lower", "upper", "sum", "nocase"}

\* ethers.utils.getAddress: the checksummed form of a valid address
getAddress(v) == HexStr(v.h, "sum", FALSE)

\* Number(x) for the decimals values used here
ToNumber(v) ==
  CASE v.kind = "number" -> v
    [] v.kind = "text" /\ v.t = "" -> Num(0)
    [] v.kind = "text" /\ v.t = "18" -> Num(18)
    [] v.kind = "text" /\ v.t = "0" -> Num(0)
    [] v.kind = "text" /\ v.t = "255" -> Num(255)
    [] v.kind = "text" /\ v.t = "256" -> Num(256)
    [] v.kind = "text" /\ v.t = "-1" -> Num(0 - 1)
    [] v.kind = "null" -> Num(0)
    [] OTHER -> NotInt

\* ------------------------------------------------------------- BigNumber
\* A BigNumber is a sign and a magnitude in decimal digits without leading
\* zeros (<<0>> for zero); digit strings keep 10^255 representable.
RECURSIVE StripZeros(_)
StripZeros(ds) ==
  IF Len(ds) > 1 /\ Head(ds) = 0 THEN StripZeros(Tail(ds))
  ELSE IF ds = <<>> THEN <<0>> ELSE ds

Big(neg, ds) ==
  LET mag == StripZeros(ds)
  IN [kind |-> "big", neg |-> neg /\ mag # <<0>>, mag |-> mag]

Zeros(k) == [i \in 1..k |-> 0]

RECURSIVE TrimTrailingZeros(_)
TrimTrailingZeros(ds) ==
  IF ds # <<>> /\ ds[Len(ds)] = 0 THEN TrimTrailingZeros(SubSeq(ds, 1, Len(ds) - 1))
  ELSE ds

\* ethers.BigNumber.from on a string: integer literals only
BigNumberFrom(a) ==
  IF a.kind = "amt" /\ ~a.dot /\ a.whole # <<>>
  THEN Ok(Big(a.neg, a.whole))
  ELSE Err("invalid BigNumber string")

\* ethers.utils.parseUnits(value, decimals) (parseFixed): the value is
\* whole * 10^decimals + fraction, the fraction right-padded to `decimals`
\* digits after its trailing zeros are dropped.
parseUnits(a, decimals) ==
  IF a.kind # "amt" THEN Err("invalid decimal value")
  ELSE IF a.whole = <<>> /\ a.frac = <<>> THEN Err("missing value")
  ELSE LET whole == IF a.whole = <<>> THEN <<0>> ELSE a.whole
           fraction == TrimTrailingZeros(a.frac)
       IN IF Len(fraction) > decimals
          THEN Err("fractional component exceeds decimals")
          ELSE Ok(Big(a.neg, whole \o fraction \o Zeros(decimals - Len(fraction))))

\* ------------------------------------------------ tasks/actions.js helpers
Error(msg, key) == [msg |-> msg, key |-> key]

\* resolveContractAddress with the two environment variables consulted in the
\* opposite order
RECURSIVE resolveContractAddress_EnvSwapped(_, _, _, _)
resolveContractAddress_EnvSwapped(explicit, env, latest, net) ==
  IF Truthy(explicit)
  THEN IF ~isAddress(explicit)
       THEN Err(Error("Invalid contract address", ""))
       ELSE IF toLowerCase(getAddress(explicit)) = ZERO_ADDRESS
            THEN Err(Error("Contract address must not be the zero address", ""))
            ELSE Ok(getAddress(explicit))
  ELSE LET fromEnv == IF Truthy(env.JPYC_CONTRACT_ADDRESS) THEN env.JPYC_CONTRACT_ADDRESS
                      ELSE env.JPYC_PROXY
       IN IF Truthy(fromEnv)
          THEN resolveContractAddress_EnvSwapped(fromEnv, env, latest, net)
          ELSE IF /\ net \in DOMAIN latest
                  /\ "proxy" \in DOMAIN latest[net]
                  /\ Truthy(latest[net].proxy)
               THEN resolveContractAddress_EnvSwapped(latest[net].proxy, env, latest, net)
               ELSE Err(Error("Unable to determine proxy address", ""))

\* The deployments directory as the tasks see it: latest[n] exists iff
\* <network>-latest.json exists, and holds the parsed JSON.
RECURSIVE resolveContractAddress(_, _, _, _)
resolveContractAddress(explicit, env, latest, net) ==
  IF Truthy(explicit)
  THEN IF ~isAddress(explicit)
       THEN Err(Error("Invalid contract address", ""))
       ELSE IF toLowerCase(getAddress(explicit)) = ZERO_ADDRESS
            THEN Err(Error("Contract address must not be the zero address", ""))
            ELSE Ok(getAddress(explicit))
  ELSE LET fromEnv == IF Truthy(env.JPYC_PROXY) THEN env.JPYC_PROXY
                      ELSE env.JPYC_CONTRACT_ADDRESS
       IN IF Truthy(fromEnv)
          THEN resolveContractAddress(fromEnv, env, latest, net)
          ELSE IF /\ net \in DOMAIN latest
                  /\ "proxy" \in DOMAIN latest[net]
                  /\ Truthy(latest[net].proxy)
               THEN resolveContractAddress(latest[net].proxy, env, latest, net)
               ELSE Err(Error("Unable to determine proxy address", ""))

\* normalizeAddress without the zero-address check
normalizeAddress_NoZeroCheck(value, label) ==
  IF ~isAddress(value)
  THEN Err(Error("Invalid address", label))
  ELSE Ok(getAddress(value))

normalizeAddress(value, label) ==
  IF ~isAddress(value)
  THEN Err(Error("Invalid address", label))
  ELSE IF toLowerCase(getAddress(value)) = ZERO_ADDRESS
       THEN Err(Error("address must not be zero", label))
       ELSE Ok(getAddress(value))

\* normalizeAmount scaling the amount even when raw is set
normalizeAmount_RawScaled(amount, decimals, raw) ==
  LET parsedDecimals ==
        ToNumber(IF decimals.kind \in {"undefined", "null"}
                 THEN Num(DEFAULT_DECIMALS) ELSE decimals)
  IN IF ~parsedDecimals.int \/ parsedDecimals.n < 0 \/ parsedDecimals.n > 255
     THEN Err(Error("decimals must be an integer between 0 and 255", ""))
     ELSE parseUnits(amount, parsedDecimals.n)

normalizeAmount(amount, decimals, raw) ==
  IF raw
  THEN BigNumberFrom(amount)
  ELSE LET parsedDecimals ==
             ToNumber(IF decimals.kind \in {"undefined", "null"}
                      THEN Num(DEFAULT_DECIMALS) ELSE decimals)
       IN IF ~parsedDecimals.int \/ parsedDecimals.n < 0 \/ parsedDecimals.n > 255
          THEN Err(Error("decimals must be an integer between 0 and 255", ""))
          ELSE parseUnits(amount, parsedDecimals.n)

\* -------------------------------------------------- tasks/admin.js helpers
RECURSIVE admin_resolveContractAddress(_, _, _, _)
admin_resolveContractAddress(explicit, env, latest, net) ==
  IF Truthy(explicit)
  THEN IF ~isAddress(explicit)
       THEN Err(Error("Invalid contract address", ""))
       ELSE IF toLowerCase(getAddress(explicit)) = ZERO_ADDRESS
            THEN Err(Error("Contract address must not be zero", ""))
            ELSE Ok(getAddress(explicit))
  ELSE LET fromEnv == IF Truthy(env.JPYC_PROXY) THEN env.JPYC_PROXY
                      ELSE env.JPYC_CONTRACT_ADDRESS
       IN IF Truthy(fromEnv)
          THEN admin_resolveContractAddress(fromEnv, env, latest, net)
          ELSE IF /\ net \in DOMAIN latest
                  /\ "proxy" \in DOMAIN latest[net]
                  /\ Truthy(latest[net].proxy)
               THEN admin_resolveContractAddress(latest[net].proxy, env, latest, net)
               ELSE Err(Error("Unable to determine proxy address", ""))

admin_normalizeAddress(value, label) ==
  IF ~isAddress(value)
  THEN Err(Error("Invalid address", label))
  ELSE IF toLowerCase(getAddress(value)) = ZERO_ADDRESS
       THEN Err(Error("address must not be zero", label))
       ELSE Ok(getAddress(value))

admin_normalizeAmount(amount) ==
  LET value == BigNumberFrom(amount)
  IN IF ~value.ok THEN value
     ELSE IF value.val.neg
          THEN Err(Error("Allowance amount must be non-negative", ""))
          ELSE value

\* roleMap of jpyc:update-roles; the keys are the lower-cased role names
roleMap ==
  [pauser |-> "updatePauser", blocklister |-> "updateBlocklister",
   rescuer |-> "updateRescuer", allowlister |-> "updateAllowlister",
   minteradmin |-> "updateMinterAdmin", owner |-> "transferOwnership"]

\* role.trim().toLowerCase() for the role spellings used as inputs
normalizedRole(role) ==
  CASE role.t = "minterAdmin" -> "minteradmin"
    [] role.t = "PAUSER" -> "pauser"
    [] OTHER -> role.t

\* ------------------------------------------------- tasks/deploy.js helpers
REQUIRED_FIELDS ==
  <<"name", "symbol", "currency", "decimals", "minterAdmin", "pauser",
    "blocklister", "rescuer", "owner">>

ENV_KEYS ==
  [name |-> "TOKEN_NAME", symbol |-> "TOKEN_SYMBOL", currency |-> "TOKEN_CURRENCY",
   decimals |-> "TOKEN_DECIMALS", minterAdmin |-> "JPYC_MINTER_ADMIN",
   pauser |-> "JPYC_PAUSER", blocklister |-> "JPYC_BLOCKLISTER",
   rescuer |-> "JPYC_RESCUER", owner |-> "JPYC_OWNER"]

ROLE_KEYS == <<"minterAdmin", "pauser", "blocklister", "rescuer", "owner">>

\* String(value).trim() === '' of loadParams
IsBlank(value) == value.kind = "text" /\ value.t = ""

\* the completeness test without the blank-string case
IsMissing_NoBlank(value) ==
  value.kind = "undefined" \/ value.kind = "null"

IsMissing(value) ==
  value.kind = "undefined" \/ value.kind = "null" \/ IsBlank(value)

\* The address loop of loadParams from position i on: the first role key that
\* fails throws, otherwise every role address is replaced by its checksum.
RECURSIVE NormalizeRoles(_, _)
NormalizeRoles(normalized, i) ==
  IF i > Len(ROLE_KEYS) THEN Ok(normalized)
  ELSE LET key == ROLE_KEYS[i]
           candidate == trim(normalized[key])
       IN IF ~isAddress(candidate)
          THEN Err(Error("Invalid address for", key))
          ELSE IF toLowerCase(getAddress(candidate)) = ZERO_ADDRESS
               THEN Err(Error("Address must not be zero", key))
               ELSE NormalizeRoles([normalized EXCEPT ![key] = getAddress(candidate)],
                                   i + 1)

\* loadParams on the object read from the params file (viaFile) or collected
\* from the environment; a field the source lacks reads as Undefined.
loadParams(source, viaFile) ==
  LET missing == {i \in 1..Len(REQUIRED_FIELDS) : IsMissing(source[REQUIRED_FIELDS[i]])}
  IN IF missing # {}
     THEN LET field == REQUIRED_FIELDS[CHOOSE i \in missing : \A j \in missing : i <= j]
          IN Err(IF viaFile THEN Error("Missing params field", field)
                 ELSE Error("Missing env var", ENV_KEYS[field]))
     ELSE LET decimals == ToNumber(trim(source.decimals))
          IN IF ~decimals.int \/ decimals.n < 0 \/ decimals.n > 255
             THEN Err(Error("decimals must be an integer between 0 and 255", ""))
             ELSE LET roles == NormalizeRoles([source EXCEPT !.decimals = decimals], 1)
                  IN IF ~roles.ok THEN roles
                     ELSE Ok([roles.val EXCEPT !.name = trim(@),
                                               !.symbol = trim(@),
                                               !.currency = trim(@)])

\* persistDeployment that leaves an existing latest file alone
persistDeployment_KeepLatest(dir, networkName, record) ==
  LET historyFile == <<networkName, record.deployedAt>>
  IN [history |-> [f \in DOMAIN dir.history \cup {historyFile} |->
                     IF f = historyFile THEN record ELSE dir.history[f]],
      latest |-> [n \in DOMAIN dir.latest \cup {networkName} |->
                     IF n \in DOMAIN dir.latest THEN dir.latest[n] ELSE record]]

\* persistDeployment: the history file named after the record's deployedAt and
\* the latest file of the network are both overwritten with the record.
persistDeployment(dir, networkName, record) ==
  LET historyFile == <<networkName, record.deployedAt>>
  IN [history |-> [f \in DOMAIN dir.history \cup {historyFile} |->
                     IF f = historyFile THEN record ELSE dir.history[f]],
      latest |-> [n \in DOMAIN dir.latest \cup {networkName} |->
                     IF n = networkName THEN record ELSE dir.latest[n]]]

\* ------------------------------------------------------------------ state
VARIABLES
  files,        \* deployments directory: history and latest JSON files
  chain,        \* per network, the proxies whose deployment was confirmed
  deployCount,  \* number of deployProxy calls made so far
  now,          \* the clock read by new Date()
  inv           \* the task invocation in progress (or just finished)

vars == <<files, chain, deployCount, now, inv>>

\* networks of hardhat.config.js
Networks == {"hardhat", "baseSepolia"}

Idle == [task |-> "none", pc |-> "idle"]

\* Addresses handed out by the chain and the runtime
ProxyAddress(k) == HexStr(100 + k, "sum", FALSE)
ImplV1Address == HexStr(201, "sum", FALSE)
ImplV2Address == HexStr(202, "sum", FALSE)
DeployerAddress == HexStr(9, "sum", FALSE)
TxHash(k) == [kind |-> "hash", n |-> k]

Extend(r, k, v) == [x \in DOMAIN r \cup {k} |-> IF x = k THEN v ELSE r[x]]

Init ==
  /\ files = [history |-> <<>>, latest |-> <<>>]
  /\ chain = [n \in Networks |-> <<>>]
  /\ deployCount = 0
  /\ now = 0
  /\ inv = Idle

\* ---------------------------------------------------- deploy:jpycv2 inputs
GoodSource ==
  [name |-> Text("JPY Coin", FALSE), symbol |-> Text("JPYC", FALSE),
   currency |-> Text("JPY", FALSE), decimals |-> Text("18", FALSE),
   minterAdmin |-> HexStr(11, "sum", FALSE), pauser |-> HexStr(12, "sum", FALSE),
   blocklister |-> HexStr(13, "sum", FALSE), rescuer |-> HexStr(14, "sum", FALSE),
   owner |-> HexStr(15, "sum", FALSE)]

FieldSet == {REQUIRED_FIELDS[i] : i \in 1..Len(REQUIRED_FIELDS)}

\* Sources that pass loadParams but are not yet normalized
ValidSources ==
  {GoodSource,
   [GoodSource EXCEPT !.name = Text("JPY Coin", TRUE), !.decimals = Num(18),
                      !.pauser = HexStr(12, "upper", FALSE),
                      !.owner = HexStr(15, "lower", TRUE)]}

\* Parameter files: any one field absent, null or blank, some bad values, and
\* two files with two faults
FileSources ==
  ValidSources
  \cup {[GoodSource EXCEPT ![f] = Undefined] : f \in FieldSet}
  \cup {[GoodSource EXCEPT ![f] = Null] : f \in {"name", "decimals", "owner"}}
  \cup {[GoodSource EXCEPT ![f] = Text("", TRUE)] : f \in {"symbol", "decimals", "pauser"}}
  \cup {[GoodSource EXCEPT !.decimals = d] : d \in {Num(256), Text("1.5", FALSE), Num(0 - 1)}}
  \cup {[GoodSource EXCEPT !.rescuer = a] :
          a \in {Text("garbage", FALSE), HexStr(0, "sum", FALSE), HexStr(14, "badsum", FALSE)}}
  \cup {[GoodSource EXCEPT !.currency = Undefined, !.owner = Null],
        [GoodSource EXCEPT !.blocklister = Text("", FALSE), !.decimals = Num(256)]}

\* Environments: process.env holds strings only, so no null
EnvSources ==
  {GoodSource}
  \cup {[GoodSource EXCEPT ![f] = Undefined] : f \in {"name", "minterAdmin", "owner"}}
  \cup {[GoodSource EXCEPT ![f] = Text("", FALSE)] : f \in {"currency", "decimals"}}
  \cup {[GoodSource EXCEPT !.minterAdmin = HexStr(0, "sum", FALSE)]}

DefaultRuntime ==
  [targetNetwork : {Undefined}, network : Networks, changeNetwork : {FALSE},
   signer : {TRUE}]
Runtimes ==
  [targetNetwork : {Undefined} \cup {Text(n, FALSE) : n \in Networks},
   network : Networks, changeNetwork : BOOLEAN, signer : BOOLEAN]
MissingName == [GoodSource EXCEPT !.name = Undefined]

\* Inputs of deploy:jpycv2.  One group of inputs varies at a time: the runtime
\* (network switch, signer), the parameter source, or the flags together with
\* the availability of the verify task.
DeployInputs ==
  [rt : Runtimes, viaFile : {TRUE}, source : {GoodSource, MissingName},
   verify : {FALSE}, v1only : {FALSE}, verifyTask : {TRUE}]
  \cup [rt : DefaultRuntime, viaFile : {TRUE}, source : FileSources,
        verify : {FALSE}, v1only : {FALSE}, verifyTask : {TRUE}]
  \cup [rt : DefaultRuntime, viaFile : {FALSE}, source : EnvSources,
        verify : {FALSE}, v1only : {FALSE}, verifyTask : {TRUE}]
  \cup [rt : DefaultRuntime, viaFile : {TRUE}, source : {GoodSource},
        verify : BOOLEAN, v1only : BOOLEAN, verifyTask : BOOLEAN]

\* ----------------------------------------------------------- deploy:jpycv2
DeployFailed(error) ==
  inv' = [inv EXCEPT !.pc = "failed", !.error = error]

\* lines 38-69: network switch, signer, loadParams
DeployStart ==
  /\ inv.pc = "idle"
  /\ deployCount < MaxDeploys
  /\ \E in \in DeployInputs :
       LET switch == Truthy(in.rt.targetNetwork) /\ in.rt.targetNetwork.t # in.rt.network
           net == IF switch /\ in.rt.changeNetwork THEN in.rt.targetNetwork.t
                  ELSE in.rt.network
           params == loadParams(in.source, in.viaFile)
           start == [task |-> "deploy:jpycv2", pc |-> "deployProxy", in |-> in,
                     net |-> net, calls |-> <<>>, log |-> <<>>,
                     error |-> Error("", ""), params |-> GoodSource,
                     proxy |-> Undefined, upgradeTx |-> FALSE,
                     record |-> [none |-> TRUE]]
       IN IF switch /\ ~in.rt.changeNetwork
             THEN inv' = [start EXCEPT !.pc = "failed",
                                       !.error = Error("Network positional argument provided",
                                                       in.rt.targetNetwork.t)]
             ELSE IF ~in.rt.signer
                  THEN inv' = [start EXCEPT !.pc = "failed",
                                            !.error = Error("No signer available for deployment", "")]
                  ELSE IF ~params.ok
                       THEN inv' = [start EXCEPT !.pc = "failed", !.error = params.err]
                       ELSE inv' = [start EXCEPT !.params = params.val]
  /\ UNCHANGED <<files, chain, deployCount, now>>

deployArgs(params) == [i \in 1..Len(REQUIRED_FIELDS) |-> params[REQUIRED_FIELDS[i]]]

\* lines 71-78: upgrades.deployProxy either throws or returns the proxy
\* contract with its deployment transaction sent
DeployProxy ==
  /\ inv.task = "deploy:jpycv2" /\ inv.pc = "deployProxy"
  /\ deployCount' = deployCount + 1
  /\ LET call == [method |-> "deployProxy", args |-> deployArgs(inv.params)]
     IN \/ inv' = [inv EXCEPT !.calls = Append(@, call), !.pc = "failed",
                              !.error = Error("deployProxy failed", "")]
        \/ inv' = [inv EXCEPT !.calls = Append(@, call), !.pc = "wait",
                              !.proxy = ProxyAddress(deployCount')]
  /\ UNCHANGED <<files, chain, now>>

\* line 79: proxy.deployTransaction.wait()
WaitDeploy ==
  /\ inv.task = "deploy:jpycv2" /\ inv.pc = "wait"
  /\ \/ /\ chain' = [chain EXCEPT ![inv.net] = Append(@, inv.proxy)]
        /\ inv' = [inv EXCEPT !.pc = "readImplementation"]
     \/ /\ DeployFailed(Error("deployment transaction failed", ""))
        /\ UNCHANGED chain
  /\ UNCHANGED <<files, deployCount, now>>

\* lines 80-98: read the implementation address, build the record, persist it
RecordDeployment ==
  /\ inv.task = "deploy:jpycv2" /\ inv.pc = "readImplementation"
  /\ \/ LET record == [network |-> inv.net, deployedAt |-> now,
                       deployer |-> DeployerAddress, txHash |-> TxHash(inv.proxy.h),
                       proxy |-> inv.proxy, implementation |-> ImplV1Address,
                       params |-> inv.params]
        IN /\ files' = persistDeployment(files, inv.net, record)
           /\ now' = now + 1
           /\ inv' = [inv EXCEPT !.pc = "verify", !.record = record]
     \/ /\ DeployFailed(Error("getImplementationAddress failed", ""))
        /\ UNCHANGED <<files, now>>
  /\ UNCHANGED <<chain, deployCount>>

\* verifyImplementation without the try/catch around hre.run
verifyImplementation_NoCatch(verifyTask, runThrew) ==
  IF ~verifyTask
  THEN [log |-> "verification task not available, skipping", threw |-> FALSE]
  ELSE IF runThrew THEN [log |-> "", threw |-> TRUE]
       ELSE [log |-> "implementation verified", threw |-> FALSE]

\* verifyImplementation, lines 179-190: the console line it leaves and whether
\* an exception leaves the function, given that hre.run('verify:verify') threw
\* or not; the try/catch keeps the exception inside.
verifyImplementation(verifyTask, runThrew) ==
  IF ~verifyTask
  THEN [log |-> "verification task not available, skipping", threw |-> FALSE]
  ELSE IF runThrew THEN [log |-> "verification skipped", threw |-> FALSE]
       ELSE [log |-> "implementation verified", threw |-> FALSE]

\* the step after the V1 verification without the --v1only test
VerifyV1_AlwaysUpgrade ==
  /\ inv.task = "deploy:jpycv2" /\ inv.pc = "verify"
  /\ inv' = [inv EXCEPT !.pc = "upgradeProxy"]
  /\ UNCHANGED <<files, chain, deployCount, now>>

\* lines 100-108: optional verification of the V1 implementation, then either
\* return the record (--v1only) or go on to upgradeToV2
VerifyV1 ==
  /\ inv.task = "deploy:jpycv2" /\ inv.pc = "verify"
  /\ \E runThrew \in BOOLEAN :
       IF inv.in.verify /\ inv.in.verifyTask
       THEN LET v == verifyImplementation(inv.in.verifyTask, runThrew)
            IN IF v.threw
               THEN inv' = [inv EXCEPT !.pc = "failed",
                                       !.error = Error("verify:verify failed", "")]
               ELSE inv' = [inv EXCEPT !.log = Append(@, v.log),
                                       !.pc = IF inv.in.v1only THEN "done"
                                              ELSE "upgradeProxy"]
       ELSE inv' = [inv EXCEPT !.pc = IF inv.in.v1only THEN "done" ELSE "upgradeProxy"]
  /\ UNCHANGED <<files, chain, deployCount, now>>

\* upgradeToV2, lines 193-204: upgrades.upgradeProxy throws or returns, with or
\* without a deployTransaction
UpgradeProxy ==
  /\ inv.task = "deploy:jpycv2" /\ inv.pc = "upgradeProxy"
  /\ LET call == [method |-> "upgradeProxy", args |-> <<inv.proxy>>]
     IN \/ inv' = [inv EXCEPT !.calls = Append(@, call), !.pc = "failed",
                              !.error = Error("upgradeProxy failed", "")]
        \/ \E tx \in BOOLEAN :
             inv' = [inv EXCEPT !.calls = Append(@, call), !.pc = "upgradeWait",
                                !.upgradeTx = tx]
  /\ UNCHANGED <<files, chain, deployCount, now>>

\* upgradeToV2, lines 206-213
UpgradeWait ==
  /\ inv.task = "deploy:jpycv2" /\ inv.pc = "upgradeWait"
  /\ IF inv.upgradeTx
     THEN \/ inv' = [inv EXCEPT !.pc = "readImplementationV2",
                                !.record = Extend(@, "upgradeTxHash", TxHash(1000 + inv.proxy.h))]
          \/ DeployFailed(Error("upgrade transaction failed", ""))
     ELSE inv' = [inv EXCEPT !.pc = "readImplementationV2"]
  /\ UNCHANGED <<files, chain, deployCount, now>>

\* reading the new implementation into the record's implementation field
ReadImplementationV2_Overwrite ==
  /\ inv.task = "deploy:jpycv2" /\ inv.pc = "readImplementationV2"
  /\ inv' = [inv EXCEPT !.pc = "verifyV2",
                        !.record = Extend(Extend([@ EXCEPT !.implementation = ImplV2Address],
                                                 "implementationV2", ImplV2Address),
                                          "upgradedAt", now)]
  /\ now' = now + 1
  /\ UNCHANGED <<files, chain, deployCount>>

\* upgradeToV2, lines 215-218
ReadImplementationV2 ==
  /\ inv.task = "deploy:jpycv2" /\ inv.pc = "readImplementationV2"
  /\ \/ /\ inv' = [inv EXCEPT !.pc = "verifyV2",
                              !.record = Extend(Extend(@, "implementationV2", ImplV2Address),
                                                "upgradedAt", now)]
        /\ now' = now + 1
     \/ /\ DeployFailed(Error("getImplementationAddress failed", ""))
        /\ UNCHANGED now
  /\ UNCHANGED <<files, chain, deployCount>>

\* upgradeToV2, lines 220-224, and the return of line 108
VerifyV2AndPersist ==
  /\ inv.task = "deploy:jpycv2" /\ inv.pc = "verifyV2"
  /\ \E runThrew \in BOOLEAN :
       LET v == verifyImplementation(inv.in.verifyTask, runThrew)
       IN IF inv.in.verify /\ v.threw
          THEN /\ inv' = [inv EXCEPT !.pc = "failed",
                                     !.error = Error("verify:verify failed", "")]
               /\ UNCHANGED files
          ELSE /\ inv' = [inv EXCEPT !.log = IF inv.in.verify THEN Append(@, v.log) ELSE @,
                                     !.pc = "done"]
               /\ files' = persistDeployment(files, inv.net, inv.record)
  /\ UNCHANGED <<chain, deployCount, now>>

\* the process of the invocation ends
Exit ==
  /\ inv.pc \in {"done", "failed"}
  /\ inv' = Idle
  /\ UNCHANGED <<files, chain, deployCount, now>>

\* ------------------------------------------------- command inputs (jpyc:*)
NoEnv == [JPYC_PROXY |-> Undefined, JPYC_CONTRACT_ADDRESS |-> Undefined]

ContractArgs == {Undefined, HexStr(1, "lower", FALSE), HexStr(0, "sum", FALSE)}
ProxyEnvs == {Undefined, Text("", FALSE), HexStr(2, "sum", FALSE), Text("garbage", FALSE)}
ContractEnvs == {Undefined, Text("", FALSE), HexStr(3, "upper", FALSE)}

\* Where the contract address comes from: every combination of the --contract
\* argument, the two environment variables and the network
ResolutionInputs ==
  [contract : ContractArgs,
   env : [JPYC_PROXY : ProxyEnvs, JPYC_CONTRACT_ADDRESS : ContractEnvs],
   network : Networks]

DefaultResolution ==
  [contract |-> HexStr(1, "lower", FALSE), env |-> NoEnv, network |-> "hardhat"]

AddressArgs ==
  {HexStr(4, "lower", FALSE), HexStr(4, "sum", FALSE), HexStr(4, "badsum", FALSE),
   HexStr(4, "sum", TRUE), HexStr(0, "sum", FALSE), Text("garbage", FALSE)}
DefaultAddress == HexStr(4, "lower", FALSE)

\* "5", "-5", "007", "1.50", "0.125", ".5", "-0.5", "abc"
AmountArgs ==
  {Amt(FALSE, <<5>>, FALSE, <<>>), Amt(TRUE, <<5>>, FALSE, <<>>),
   Amt(FALSE, <<0, 0, 7>>, FALSE, <<>>), Amt(FALSE, <<1>>, TRUE, <<5, 0>>),
   Amt(FALSE, <<0>>, TRUE, <<1, 2, 5>>), Amt(FALSE, <<>>, TRUE, <<5>>),
   Amt(TRUE, <<0>>, TRUE, <<5>>), Text("abc", FALSE)}
DefaultAmount == Amt(FALSE, <<5>>, FALSE, <<>>)

DecimalsArgs == {Undefined, Num(0), Num(2), Num(18), Num(255), Num(256),
                 Num(0 - 1), NotInt}

RoleArgs ==
  {Text("pauser", FALSE), Text("PAUSER", TRUE), Text("minterAdmin", FALSE),
   Text("blocklister", FALSE), Text("rescuer", FALSE), Text("allowlister", FALSE),
   Text("owner", FALSE), Text("minter", FALSE), Text("", FALSE)}
DefaultRole == Text("pauser", FALSE)

\* Inputs of one command.  One group of inputs varies at a time: where the
\* contract address comes from, the address and role arguments, or the amount
\* arguments; the others are the defaults.
CommandInputs(tos, roles, amounts, decimalss, raws) ==
  [res : ResolutionInputs, to : {DefaultAddress}, role : {DefaultRole},
   amount : {DefaultAmount}, decimals : {Num(18)}, raw : {FALSE}]
  \cup [res : {DefaultResolution}, to : tos, role : roles,
        amount : {DefaultAmount}, decimals : {Num(18)}, raw : {FALSE}]
  \cup [res : {DefaultResolution}, to : {DefaultAddress}, role : {DefaultRole},
        amount : amounts, decimals : decimalss, raw : raws]

\* ------------------------------------------------------------ the commands
\* token is the address the command bound the contract to, Undefined when the
\* resolution threw
CommandFailed(task, in, token, error) ==
  inv' = [task |-> task, pc |-> "failed", in |-> in, net |-> in.res.network,
          token |-> token, calls |-> <<>>, error |-> error]

\* token.<method>(...args) followed by tx.wait(): the transaction is mined, or
\* the call or the wait throws (the ABI encoder rejects a negative uint256)
ContractCall(task, in, address, method, args) ==
  LET call == [contract |-> address, method |-> method, args |-> args]
      done == [task |-> task, pc |-> "done", in |-> in, net |-> in.res.network,
               token |-> address, calls |-> <<call>>, error |-> Error("", "")]
  IN \/ /\ \A i \in 1..Len(args) : args[i].kind = "big" => ~args[i].neg
        /\ inv' = done
     \/ inv' = [done EXCEPT !.pc = "failed", !.error = Error("transaction failed", method)]

\* actions.js lines 71-87
Mint ==
  /\ inv.pc = "idle"
  /\ \E in \in CommandInputs(AddressArgs, {DefaultRole}, AmountArgs, DecimalsArgs, BOOLEAN) :
       LET address == resolveContractAddress(in.res.contract, in.res.env, files.latest,
                                             in.res.network)
           recipient == normalizeAddress(in.to, "recipient")
           value == normalizeAmount(in.amount, in.decimals, in.raw)
       IN IF ~address.ok THEN CommandFailed("jpyc:mint", in, Undefined, address.err)
          ELSE IF ~recipient.ok THEN CommandFailed("jpyc:mint", in, address.val, recipient.err)
          ELSE IF ~value.ok THEN CommandFailed("jpyc:mint", in, address.val, value.err)
          ELSE ContractCall("jpyc:mint", in, address.val, "mint",
                            <<recipient.val, value.val>>)
  /\ UNCHANGED <<files, chain, deployCount, now>>

\* actions.js lines 89-105
Transfer ==
  /\ inv.pc = "idle"
  /\ \E in \in CommandInputs(AddressArgs, {DefaultRole}, AmountArgs, DecimalsArgs, BOOLEAN) :
       LET address == resolveContractAddress(in.res.contract, in.res.env, files.latest,
                                             in.res.network)
           recipient == normalizeAddress(in.to, "recipient")
           value == normalizeAmount(in.amount, in.decimals, in.raw)
       IN IF ~address.ok THEN CommandFailed("jpyc:transfer", in, Undefined, address.err)
          ELSE IF ~recipient.ok THEN CommandFailed("jpyc:transfer", in, address.val, recipient.err)
          ELSE IF ~value.ok THEN CommandFailed("jpyc:transfer", in, address.val, value.err)
          ELSE ContractCall("jpyc:transfer", in, address.val, "transfer",
                            <<recipient.val, value.val>>)
  /\ UNCHANGED <<files, chain, deployCount, now>>

\* actions.js lines 107-121
Burn ==
  /\ inv.pc = "idle"
  /\ \E in \in CommandInputs({DefaultAddress}, {DefaultRole}, AmountArgs, DecimalsArgs, BOOLEAN) :
       LET address == resolveContractAddress(in.res.contract, in.res.env, files.latest,
                                             in.res.network)
           value == normalizeAmount(in.amount, in.decimals, in.raw)
       IN IF ~address.ok THEN CommandFailed("jpyc:burn", in, Undefined, address.err)
          ELSE IF ~value.ok THEN CommandFailed("jpyc:burn", in, address.val, value.err)
          ELSE ContractCall("jpyc:burn", in, address.val, "burn", <<value.val>>)
  /\ UNCHANGED <<files, chain, deployCount, now>>

\* admin.js lines 65-78
ConfigureMinter ==
  /\ inv.pc = "idle"
  /\ \E in \in CommandInputs(AddressArgs, {DefaultRole}, AmountArgs, {Num(18)}, {FALSE}) :
       LET address == admin_resolveContractAddress(in.res.contract, in.res.env,
                                                   files.latest, in.res.network)
           minterAddress == admin_normalizeAddress(in.to, "minter")
           amount == admin_normalizeAmount(in.amount)
       IN IF ~address.ok THEN CommandFailed("jpyc:configure-minter", in, Undefined, address.err)
          ELSE IF ~minterAddress.ok
               THEN CommandFailed("jpyc:configure-minter", in, address.val, minterAddress.err)
          ELSE IF ~amount.ok THEN CommandFailed("jpyc:configure-minter", in, address.val, amount.err)
          ELSE ContractCall("jpyc:configure-minter", in, address.val, "configureMinter",
                            <<minterAddress.val, amount.val>>)
  /\ UNCHANGED <<files, chain, deployCount, now>>

\* admin.js lines 80-91
RemoveMinter ==
  /\ inv.pc = "idle"
  /\ \E in \in CommandInputs(AddressArgs, {DefaultRole}, {DefaultAmount}, {Num(18)}, {FALSE}) :
       LET address == admin_resolveContractAddress(in.res.contract, in.res.env,
                                                   files.latest, in.res.network)
           minterAddress == admin_normalizeAddress(in.to, "minter")
       IN IF ~address.ok THEN CommandFailed("jpyc:remove-minter", in, Undefined, address.err)
          ELSE IF ~minterAddress.ok
               THEN CommandFailed("jpyc:remove-minter", in, address.val, minterAddress.err)
          ELSE ContractCall("jpyc:remove-minter", in, address.val, "removeMinter",
                            <<minterAddress.val>>)
  /\ UNCHANGED <<files, chain, deployCount, now>>

\* admin.js lines 93-121
UpdateRoles ==
  /\ inv.pc = "idle"
  /\ \E in \in CommandInputs(AddressArgs, RoleArgs, {DefaultAmount}, {Num(18)}, {FALSE}) :
       LET address == admin_resolveContractAddress(in.res.contract, in.res.env,
                                                   files.latest, in.res.network)
           newAddress == admin_normalizeAddress(in.to, "role")
           role == normalizedRole(in.role)
       IN IF ~address.ok THEN CommandFailed("jpyc:update-roles", in, Undefined, address.err)
          ELSE IF ~newAddress.ok THEN CommandFailed("jpyc:update-roles", in, address.val, newAddress.err)
          ELSE IF role \notin DOMAIN roleMap
               THEN CommandFailed("jpyc:update-roles", in, address.val, Error("Unsupported role", in.role.t))
          ELSE ContractCall("jpyc:update-roles", in, address.val, roleMap[role],
                            <<newAddress.val>>)
  /\ UNCHANGED <<files, chain, deployCount, now>>

Next ==
  \/ DeployStart
  \/ DeployProxy
  \/ WaitDeploy
  \/ RecordDeployment
  \/ VerifyV1
  \/ UpgradeProxy
  \/ UpgradeWait
  \/ ReadImplementationV2
  \/ VerifyV2AndPersist
  \/ Exit
  \/ Mint
  \/ Transfer
  \/ Burn
  \/ ConfigureMinter
  \/ RemoveMinter
  \/ UpdateRoles

Spec == Init /\ [][Next]_vars

TypeOK ==
  /\ deployCount \in 0..MaxDeploys
  /\ inv.pc \in {"idle", "deployProxy", "wait", "readImplementation", "verify",
                 "upgradeProxy", "upgradeWait", "readImplementationV2", "verifyV2",
                 "done", "failed"}

\* ======================================================================
\* Properties
\* ======================================================================
CommandTasks ==
  {"jpyc:mint", "jpyc:transfer", "jpyc:burn", "jpyc:configure-minter",
   "jpyc:remove-minter", "jpyc:update-roles"}

\* a command has run and its process has not exited yet
CommandRan == inv.task \in CommandTasks

\* the command was run without --contract and without the two variables
NothingGiven ==
  /\ inv.in.res.contract = Undefined
  /\ inv.in.res.env = NoEnv

UnableToDetermine ==
  /\ inv.pc = "failed"
  /\ inv.token = Undefined
  /\ inv.calls = <<>>
  /\ inv.error.msg = "Unable to determine proxy address"

\* history files of network n, and the one with the latest deployedAt
HistoryOf(n) == {f \in DOMAIN files.history : f[1] = n}
MostRecent(n) == CHOOSE f \in HistoryOf(n) : \A g \in HistoryOf(n) : g[2] <= f[2]

\* C1 as stated: a command run on network N with no --contract and with both
\* variables unset binds to the proxy of the most recent deployment on N whose
\* deployProxy transaction was confirmed, and fails with 'Unable to determine
\* proxy address' when N has none.
C1_AsStated ==
  (CommandRan /\ NothingGiven) =>
    IF chain[inv.net] # <<>>
    THEN inv.token = chain[inv.net][Len(chain[inv.net])]
    ELSE UnableToDetermine

\* C1 amended: such a command binds to the proxy of the most recent deployment
\* on N whose record was persisted (its deployProxy transaction was confirmed
\* and its implementation address was read); deployments on other networks and
\* deployments that failed before persisting do not change it; with no such
\* deployment on N the command fails with 'Unable to determine proxy address'.
C1_LatestPersistedDeployment ==
  (CommandRan /\ NothingGiven) =>
    IF HistoryOf(inv.net) # {}
    THEN inv.token = files.history[MostRecent(inv.net)].proxy
    ELSE UnableToDetermine

\* C1 witness: a command bound to the later of two deployments persisted on
\* its network
C1_Witness ==
  /\ CommandRan /\ NothingGiven
  /\ inv.pc = "done"
  /\ Cardinality(HistoryOf(inv.net)) = 2
  /\ inv.token = ProxyAddress(2)

\* ------------------------------------------------ what a valid input is
\* a syntactically valid, non-zero address string
ValidAddressString(v) ==
  /\ v.kind = "hex"
  /\ ~v.pad
  /\ v.form \in {"lower", "upper", "sum"}
  /\ v.h # 0

\* a checksummed, non-zero address
ChecksummedNonZero(v) ==
  /\ v.kind = "hex"
  /\ ~v.pad
  /\ v.form = "sum"
  /\ v.h # 0

\* a source of the contract address is present when it is a non-empty string
Present(v) == v.kind \in {"text", "hex"} /\ v # Text("", FALSE)

\* the source that decides the contract address, by precedence
DecidingSource ==
  IF Present(inv.in.res.contract) THEN inv.in.res.contract
  ELSE IF Present(inv.in.res.env.JPYC_PROXY) THEN inv.in.res.env.JPYC_PROXY
  ELSE IF Present(inv.in.res.env.JPYC_CONTRACT_ADDRESS)
       THEN inv.in.res.env.JPYC_CONTRACT_ADDRESS
  ELSE IF inv.net \in DOMAIN files.latest THEN files.latest[inv.net].proxy
  ELSE Undefined

UsesAddress ==
  inv.task \in {"jpyc:mint", "jpyc:transfer", "jpyc:configure-minter",
                "jpyc:remove-minter", "jpyc:update-roles"}
ScaledTasks == {"jpyc:mint", "jpyc:transfer", "jpyc:burn"}
UsesAmount == inv.task \in ScaledTasks \cup {"jpyc:configure-minter"}

ValidDecimals(d) == d = Undefined \/ (d.int /\ d.n >= 0 /\ d.n <= 255)
DecimalsOf(d) == IF d = Undefined THEN 18 ELSE d.n

\* number of fraction digits up to the last non-zero one
SignificantFraction(a) ==
  LET nz == {i \in 1..Len(a.frac) : a.frac[i] # 0}
  IN IF nz = {} THEN 0 ELSE CHOOSE i \in nz : \A j \in nz : j <= i

\* the amount is taken as an integer of smallest units
Unscaled == inv.in.raw \/ inv.task = "jpyc:configure-minter"

\* the amount argument is well formed: an integer literal when unscaled,
\* otherwise a decimal literal with no more fraction digits than decimals
WellFormedAmount ==
  /\ inv.in.amount.kind = "amt"
  /\ IF Unscaled
     THEN ~inv.in.amount.dot /\ inv.in.amount.whole # <<>>
     ELSE /\ ValidDecimals(inv.in.decimals)
          /\ inv.in.amount.whole # <<>> \/ inv.in.amount.frac # <<>>
          /\ SignificantFraction(inv.in.amount) <= DecimalsOf(inv.in.decimals)

NegativeAmount == inv.in.amount.kind = "amt" /\ inv.in.amount.neg

SupportedRole ==
  inv.in.role.t \in {"pauser", "PAUSER", "blocklister", "rescuer", "allowlister",
                     "minterAdmin", "owner"}

InputsValid ==
  /\ ValidAddressString(DecidingSource)
  /\ UsesAddress => ValidAddressString(inv.in.to)
  /\ UsesAmount => (WellFormedAmount /\ ~NegativeAmount)
  /\ inv.task = "jpyc:update-roles" => SupportedRole

\* C2 as stated: a command invokes at most one contract method, none when the
\* contract address cannot be resolved, an address or amount is invalid or the
\* role is unsupported (the command then fails), and exactly one on success.
C2_AsStated ==
  CommandRan =>
    /\ Len(inv.calls) <= 1
    /\ inv.pc = "done" => Len(inv.calls) = 1
    /\ ~InputsValid => (inv.pc = "failed" /\ inv.calls = <<>>)

\* C6 as stated: the amount handed to the contract method by jpyc:mint,
\* jpyc:transfer, jpyc:burn and jpyc:configure-minter is never negative, and a
\* negative amount input makes the command fail before any method is invoked.
C6_AsStated ==
  (CommandRan /\ UsesAmount) =>
    /\ \A i \in 1..Len(inv.calls) :
         \A j \in 1..Len(inv.calls[i].args) :
           inv.calls[i].args[j].kind = "big" => ~inv.calls[i].args[j].neg
    /\ NegativeAmount => (inv.pc = "failed" /\ inv.calls = <<>>)

DeployRan == inv.task = "deploy:jpycv2"

\* the role addresses of a deployProxy call: arguments 5 to 9
RoleArguments(call) == {call.args[i] : i \in 5..9}

\* the address arguments of a token method call
AddressArguments(call) ==
  {call.args[j] : j \in {k \in 1..Len(call.args) : call.args[k].kind = "hex"}}

\* a role address of the parameter source that is not a valid non-zero address
\* once surrounding white space is removed
BadRoleAddress ==
  \E i \in 1..Len(ROLE_KEYS) :
    LET v == inv.in.source[ROLE_KEYS[i]]
    IN ~(v.kind = "hex" /\ v.form \in {"lower", "upper", "sum"} /\ v.h # 0)

\* C5: every contract a command binds to, every recipient, minter or role
\* address passed to a token method, and each of the five role addresses
\* passed to deployProxy is a checksummed non-zero address; with an invalid or
\* zero address the task fails without making the call.
C5_NoCallWithBadAddress ==
  /\ CommandRan =>
       /\ inv.token # Undefined => ChecksummedNonZero(inv.token)
       /\ \A i \in 1..Len(inv.calls) :
            /\ ChecksummedNonZero(inv.calls[i].contract)
            /\ \A a \in AddressArguments(inv.calls[i]) : ChecksummedNonZero(a)
       /\ (~ValidAddressString(DecidingSource) \/ (UsesAddress /\ ~ValidAddressString(inv.in.to)))
            => (inv.pc = "failed" /\ inv.calls = <<>>)
  /\ DeployRan =>
       /\ \A i \in 1..Len(inv.calls) :
            inv.calls[i].method = "deployProxy" =>
              \A a \in RoleArguments(inv.calls[i]) : ChecksummedNonZero(a)
       /\ BadRoleAddress => (inv.pc = "failed" /\ inv.calls = <<>>)

\* C5 witness: a token method was called on a contract taken from an
\* upper-case JPYC_CONTRACT_ADDRESS with a lower-case recipient, both passed
\* in checksummed form
C5_Witness ==
  /\ inv.task = "jpyc:transfer" /\ Len(inv.calls) = 1
  /\ DecidingSource = HexStr(3, "upper", FALSE)
  /\ inv.in.to = HexStr(4, "lower", FALSE)
  /\ inv.calls[1].contract = HexStr(3, "sum", FALSE)
  /\ inv.calls[1].args[1] = HexStr(4, "sum", FALSE)

\* C7: the contract address comes from the first present source among
\* --contract, JPYC_PROXY, JPYC_CONTRACT_ADDRESS and the proxy field of the
\* network's latest deployment file (present: a non-empty value); that source
\* alone decides: a valid value is the bound address, an invalid or zero value
\* fails the command, and no lower source is consulted.
C7_ResolutionPrecedence ==
  CommandRan =>
    IF DecidingSource = Undefined THEN UnableToDetermine
    ELSE IF ValidAddressString(DecidingSource)
         THEN inv.token = HexStr(DecidingSource.h, "sum", FALSE)
         ELSE /\ inv.pc = "failed"
              /\ inv.token = Undefined
              /\ inv.calls = <<>>
              /\ inv.error.msg \in {"Invalid contract address",
                                    "Contract address must not be the zero address",
                                    "Contract address must not be zero"}

\* C7 witness: JPYC_PROXY is invalid while JPYC_CONTRACT_ADDRESS and the latest
\* deployment file both hold a valid address, and the command fails
C7_Witness ==
  /\ CommandRan
  /\ inv.in.res.contract = Undefined
  /\ inv.in.res.env.JPYC_PROXY = Text("garbage", FALSE)
  /\ inv.in.res.env.JPYC_CONTRACT_ADDRESS = HexStr(3, "upper", FALSE)
  /\ inv.net \in DOMAIN files.latest
  /\ inv.pc = "failed"
  /\ inv.error.msg = "Invalid contract address"

\* the integer a short digit string denotes
RECURSIVE DigitsToInt(_)
DigitsToInt(ds) ==
  IF ds = <<>> THEN 0 ELSE 10 * DigitsToInt(SubSeq(ds, 1, Len(ds) - 1)) + ds[Len(ds)]

\* the amount argument of a token method call
SentValue == inv.calls[1].args[Len(inv.calls[1].args)]

\* C8: for jpyc:mint, jpyc:transfer and jpyc:burn the value sent is
\* amount x 10^decimals without --raw (decimals defaulting to 18; a decimals
\* value that is not an integer in 0..255 is rejected), and with --raw it is
\* the integer amount itself whatever decimals is.  With the amount written as
\* m / 10^f the first part reads value x 10^f = m x 10^decimals.
C8_ScaledAmount ==
  (CommandRan /\ inv.task \in ScaledTasks) =>
    /\ (~inv.in.raw /\ ~ValidDecimals(inv.in.decimals)) =>
         (inv.pc = "failed" /\ inv.calls = <<>>)
    /\ (inv.calls # <<>> /\ ~inv.in.raw) =>
         LET a == inv.in.amount
             d == DecimalsOf(inv.in.decimals)
         IN /\ StripZeros(SentValue.mag \o Zeros(Len(a.frac)))
                 = StripZeros(a.whole \o a.frac \o Zeros(d))
            /\ SentValue.neg = (a.neg /\ SentValue.mag # <<0>>)
    /\ (inv.calls # <<>> /\ inv.in.raw) =>
         /\ ~inv.in.amount.dot
         /\ DigitsToInt(SentValue.mag) = DigitsToInt(inv.in.amount.whole)
         /\ SentValue.neg = (inv.in.amount.neg /\ DigitsToInt(inv.in.amount.whole) # 0)

\* C8 witness: "0.125" minted with the default decimals
C8_Witness ==
  /\ inv.task = "jpyc:mint" /\ inv.pc = "done"
  /\ inv.in.amount = Amt(FALSE, <<0>>, TRUE, <<1, 2, 5>>)
  /\ inv.in.decimals = Undefined /\ ~inv.in.raw
  /\ SentValue.mag = <<1, 2, 5>> \o Zeros(15)

\* "007" burnt raw with decimals 256 sends 7
C8_RawReached ==
  /\ inv.task = "jpyc:burn" /\ inv.pc = "done"
  /\ inv.in.amount = Amt(FALSE, <<0, 0, 7>>, FALSE, <<>>)
  /\ inv.in.decimals = Num(256) /\ inv.in.raw
  /\ SentValue.mag = <<7>>

\* --------------------------------------------------------- deploy:jpycv2
\* a required parameter is absent, null or blank in the chosen source
AbsentNullOrBlank(v) ==
  \/ v.kind \in {"undefined", "null"}
  \/ (v.kind = "text" /\ v.t = "")

MissingFields(source) ==
  {i \in 1..Len(REQUIRED_FIELDS) : AbsentNullOrBlank(source[REQUIRED_FIELDS[i]])}

MissingError(e) == e.msg \in {"Missing params field", "Missing env var"}

\* the step in which deploy:jpycv2 starts
DeployStarts == inv.pc = "idle" /\ inv'.task = "deploy:jpycv2"

\* the network switch (if one is asked for) and the signer check pass
RuntimeReady(rt) ==
  /\ rt.signer
  /\ (rt.targetNetwork = Undefined \/ rt.targetNetwork.t = rt.network \/ rt.changeNetwork)

\* C3 as stated: with a required parameter absent, null or blank in the chosen
\* source, deploy:jpycv2 fails with a 'Missing ...' error before deployProxy
\* is called and leaves the history and latest files unchanged.
C3_AsStated ==
  [][(DeployStarts /\ MissingFields(inv'.in.source) # {}) =>
       /\ inv'.pc = "failed"
       /\ MissingError(inv'.error)
       /\ inv'.calls = <<>>
       /\ files' = files]_vars

\* C3 amended: with a required parameter absent, null or blank in the chosen
\* source, deploy:jpycv2 fails before deployProxy is called and leaves the
\* history and latest files unchanged; the error is the 'Missing ...' error
\* naming the first such parameter whenever the network switch and the signer
\* check, which come first, pass.
C3_MissingParameterFails ==
  [][(DeployStarts /\ MissingFields(inv'.in.source) # {}) =>
       /\ inv'.pc = "failed"
       /\ inv'.calls = <<>>
       /\ files' = files
       /\ deployCount' = deployCount
       /\ RuntimeReady(inv'.in.rt) =>
            LET first == CHOOSE i \in MissingFields(inv'.in.source) :
                           \A j \in MissingFields(inv'.in.source) : i <= j
            IN /\ MissingError(inv'.error)
               /\ inv'.error.key = IF inv'.in.viaFile THEN REQUIRED_FIELDS[first]
                                   ELSE ENV_KEYS[REQUIRED_FIELDS[first]]]_vars

\* C3 witness: a deployment is on record and a later deploy:jpycv2 has failed
\* on a blank decimals parameter
C3_Witness ==
  /\ DeployRan /\ inv.pc = "failed"
  /\ inv.in.source.decimals = Text("", TRUE)
  /\ inv.error = Error("Missing params field", "decimals")
  /\ DOMAIN files.latest # {}

CallsOf(method) == {i \in 1..Len(inv.calls) : inv.calls[i].method = method}

HasV2Fields(r) == "implementationV2" \in DOMAIN r /\ "upgradedAt" \in DOMAIN r
NoV2Fields(r) == "implementationV2" \notin DOMAIN r /\ "upgradedAt" \notin DOMAIN r

\* the V1 record of this invocation is on disk
V1RecordPersisted ==
  /\ <<inv.net, inv.record.deployedAt>> \in DOMAIN files.history
  /\ files.history[<<inv.net, inv.record.deployedAt>>].proxy = inv.proxy
  /\ inv.net \in DOMAIN files.latest
  /\ files.latest[inv.net].proxy = inv.proxy

\* C4: deploy:jpycv2 calls deployProxy once; with --v1only it never calls
\* upgradeProxy and the persisted and returned record has no implementationV2
\* or upgradedAt; without --v1only it calls upgradeProxy once, only after the
\* deployProxy transaction is confirmed and the V1 record is persisted, and on
\* completion the latest record of the network has implementationV2 and
\* upgradedAt for the same proxy.
C4_UpgradeOptionalAndOrdered ==
  DeployRan =>
    /\ Cardinality(CallsOf("deployProxy")) <= 1
    /\ Cardinality(CallsOf("upgradeProxy")) <= 1
    /\ inv.pc = "done" => Cardinality(CallsOf("deployProxy")) = 1
    /\ inv.in.v1only =>
         /\ CallsOf("upgradeProxy") = {}
         /\ inv.pc = "done" =>
              /\ NoV2Fields(inv.record)
              /\ files.latest[inv.net] = inv.record
    /\ CallsOf("upgradeProxy") # {} =>
         /\ CallsOf("deployProxy") = {1} /\ CallsOf("upgradeProxy") = {2}
         /\ inv.calls[2].args = <<inv.proxy>>
         /\ \E i \in 1..Len(chain[inv.net]) : chain[inv.net][i] = inv.proxy
         /\ V1RecordPersisted
    /\ (~inv.in.v1only /\ inv.pc = "done") =>
         /\ Cardinality(CallsOf("upgradeProxy")) = 1
         /\ HasV2Fields(files.latest[inv.net])
         /\ files.latest[inv.net].proxy = inv.proxy
         /\ files.latest[inv.net] = inv.record

\* C4 witness: a deployment completed with the upgrade
C4_Witness ==
  /\ DeployRan /\ inv.pc = "done" /\ ~inv.in.v1only
  /\ Len(inv.calls) = 2
  /\ HasV2Fields(files.latest[inv.net])

\* a deployment completed with --v1only
C4_V1OnlyReached ==
  /\ DeployRan /\ inv.pc = "done" /\ inv.in.v1only
  /\ Len(inv.calls) = 1
  /\ NoV2Fields(files.latest[inv.net])

\* the steps of deploy:jpycv2 after the V1 record has been persisted
AfterPersist ==
  /\ DeployRan
  /\ inv.pc \in {"verify", "upgradeProxy", "upgradeWait", "readImplementationV2",
                 "verifyV2"}

KeptFields == {"network", "deployer", "txHash", "proxy", "implementation", "params"}

\* C9: once deploy:jpycv2 has persisted the record of the confirmed proxy, no
\* later step of the invocation removes the latest record or changes its
\* network, deployer, txHash, proxy, implementation or params; when a later
\* step fails, the latest record still names the new proxy with its V1
\* implementation and has no implementationV2.
C9_PersistedRecordKept ==
  [][AfterPersist =>
       /\ inv.net \in DOMAIN files'.latest
       /\ \A f \in KeptFields : files'.latest[inv.net][f] = files.latest[inv.net][f]
       /\ files'.latest[inv.net].proxy = inv.proxy
       /\ files'.latest[inv.net].implementation = ImplV1Address
       /\ inv'.pc = "failed" =>
            /\ files'.latest[inv.net] = files.latest[inv.net]
            /\ "implementationV2" \notin DOMAIN files'.latest[inv.net]]_vars

\* C9 witness: the upgrade was called and the invocation failed after it
C9_Witness ==
  /\ DeployRan /\ inv.pc = "failed"
  /\ CallsOf("upgradeProxy") = {2}
  /\ "upgradeTxHash" \in DOMAIN inv.record
  /\ inv.error.msg = "getImplementationAddress failed"
  /\ files.latest[inv.net].proxy = inv.proxy
  /\ NoV2Fields(files.latest[inv.net])

\* C10: a failing block-explorer verification does not abort deploy:jpycv2:
\* after the verification of the V1 implementation the task goes on to the
\* upgrade, or returns with --v1only; after that of the V2 implementation it
\* persists the final record and returns it; without a verify task the
\* verification is skipped and nothing fails.
C10_VerificationNeverAborts ==
  [][/\ (DeployRan /\ inv.pc = "verify") =>
          /\ inv'.pc = IF inv.in.v1only THEN "done" ELSE "upgradeProxy"
          /\ inv'.record = inv.record
          /\ files'.latest[inv.net] = inv.record
     /\ (DeployRan /\ inv.pc = "verifyV2") =>
          /\ inv'.pc = "done"
          /\ inv'.record = inv.record
          /\ files'.latest[inv.net] = inv.record
          /\ files'.history[<<inv.net, inv.record.deployedAt>>] = inv.record]_vars

\* C10 witness: both verifications threw and the deployment completed
C10_Witness ==
  /\ DeployRan /\ inv.pc = "done"
  /\ inv.in.verify /\ inv.in.verifyTask /\ ~inv.in.v1only
  /\ inv.log = <<"verification skipped", "verification skipped">>
  /\ HasV2Fields(files.latest[inv.net])

\* --verify without a verify task: the deployment completed, the verification
\* was skipped
C10_NoVerifyTaskReached ==
  /\ DeployRan /\ inv.pc = "done"
  /\ inv.in.verify /\ ~inv.in.verifyTask /\ ~inv.in.v1only
  /\ inv.log = <<"verification task not available, skipping">>
====
